---- MODULE Spec2Model ----
(***************************************************************************)
(* Student panel: client progress store (js/progress.js), offline sync     *)
(* queue (backend/api.js), session guard (js/auth-guard.js) and the Apps   *)
(* Script backend handlers.                                                *)
(*                                                                         *)
(* The module holds one set of variables and several specifications, one   *)
(* per subsystem; a specification leaves the variables of the other        *)
(* subsystems unchanged.                                                   *)
(*                                                                         *)
(* Environment: localStorage / sessionStorage writes are taken to succeed  *)
(* (the code swallows quota exceptions; they are not part of the model).   *)
(***************************************************************************)
EXTENDS Integers, Sequences, FiniteSets, TLC

VARIABLES
    progress,   \* localStorage['grammarhub_progress_v2']
    remoteIn,   \* answer of API.fetchProgress handed to _mergeBackendData
    config,     \* std-config.js of the subject shown on the level page
    bestSaved,  \* history: per set, the highest percentage passed through saveResult since
                \* the store was last cleared (NaN when there was none)
    mergedSince,\* history: a backend merge ran since the store was last cleared
    regSheet,   \* backend: rows of the REGISTRATION sheet, in sheet order
    nextUuid,   \* backend: number of values Utilities.getUuid() has produced
    issued,     \* history: per student id, the tokens successful logins returned, oldest first
    results,    \* backend: rows of the RESULTS sheet, in sheet order
    locked,     \* history: the student ids suspended or rejected and not logged in since
    syncQueue,  \* localStorage['grammarhub_sync_queue']
    dashCache,  \* sessionStorage['grammarhub_dashboard_cache']
    lsStudentId,\* localStorage['grammarhub_student_id'], << >> when the key is absent
    syncs,      \* number of API.syncResult calls so far
    inflight,   \* payloads of the API.syncResult calls awaiting _sendPayload
    retry,      \* the API.retryQueue run in progress, if any
    resent,     \* history: per payload timestamp, how often retryQueue has sent it
    session,    \* localStorage['grammarhub_session'], << >> when the key is absent
    page,       \* the document the browser shows
    href,       \* the last value assigned to window.location.href by this document
    checks,     \* the checkAuth calls of this document awaiting API.checkSession
    logouts,    \* number of logout() calls of this document awaiting import('./progress.js')
    advances,   \* number of times the clock was moved
    engine,     \* engine.js: questions, answers and submitted of the quiz on practice.html
    syncRun,    \* progress.js: _inflightSync, the syncFromBackend run in progress
    revoked,    \* history: checkAuth cleared the session on the server's refusal and
                \* createSession has not run since
    now,        \* Date.now() of the browser
    op          \* the operation that produced the current state, with its inputs

progressVars == <<progress, remoteIn, config, bestSaved, mergedSince>>
serverVars == <<regSheet, nextUuid, issued, results, locked>>
queueVars == <<syncQueue, dashCache, lsStudentId, syncs, inflight, retry, resent>>
authVars == <<session, page, href, checks, logouts, advances, revoked>>
pageVars == <<engine, syncRun>>
clientVars == <<queueVars, authVars, pageVars>>

vars == <<progress, remoteIn, config, bestSaved, mergedSince, now, op,
          regSheet, nextUuid, issued,
          syncQueue, dashCache, lsStudentId, syncs, inflight, retry, resent,
          session, page, href, checks, logouts, advances, revoked,
          results, locked, engine, syncRun>>

----------------------------------------------------------------------------
(* Bounds *)

MaxTime == 1
MaxTotal == 2
MaxUuid == 2
MaxSyncs == 2
MaxResults == 3
MaxQuestions == 2
MaxAdvances == 2

----------------------------------------------------------------------------
(* JavaScript values *)

\* NaN is the result of Math.round(0 / 0 * 100); every comparison with it is false
NaN == -1

\* x || 0 on a number: NaN is falsy
OrZero(x) == IF x = NaN THEN 0 ELSE x

Max(a, b) == IF a >= b THEN a ELSE b

----------------------------------------------------------------------------
(* progress.js : the progress store *)

Subjects == {"tenses"}
Levels == {"primary"}
Sets == {"1", "2"}

\* top-level keys a backend response can carry besides subjects
ReservedKeys == {"_meta", "success"}
TopKeys == Subjects \cup ReservedKeys

StoreKeys == Subjects \X Levels \X Sets
RemoteKeys == TopKeys \X Levels \X Sets

\* Object.keys order of the remote object, as a sequence of slots
KeyOrder ==
    << <<"tenses", "primary", "1">>, <<"tenses", "primary", "2">>,
       <<"_meta", "primary", "1">>, <<"success", "primary", "1">> >>

\* Math.round((score / total) * 100)
Pct(score, total) ==
    IF total = 0 THEN NaN ELSE (200 * score + total) \div (2 * total)

NoProgress == [present |-> FALSE, entries |-> << >>, last |-> << >>]

\* Progress.getAll(): {} when the key is missing
getAll(p) == IF p.present THEN p ELSE [present |-> TRUE, entries |-> << >>, last |-> << >>]

HasEntry(p, k) == k \in DOMAIN p.entries

\* data[subject]?.[level]?.[set]?.percentage || 0
BestOf(p, k) == IF HasEntry(p, k) THEN OrZero(p.entries[k].percentage) ELSE 0

\* pct >= best, false for NaN
GE(pct, best) == pct # NaN /\ pct >= best

Put(f, k, v) == [x \in (DOMAIN f) \cup {k} |-> IF x = k THEN v ELSE f[x]]

\* saveResult without the "pct >= best" test: the latest attempt always wins
saveResultLatestWins(p, k, score, total, ts) ==
    LET data == getAll(p)
        pct == Pct(score, total)
    IN  [present |-> TRUE,
         entries |-> Put(data.entries, k,
                         [score |-> score, total |-> total, percentage |-> pct, timestamp |-> ts]),
         last |-> << [key |-> k, percentage |-> pct, timestamp |-> ts] >>]

saveResultStore(p, k, score, total, ts) ==
    LET data == getAll(p)
        pct == Pct(score, total)
        best == BestOf(data, k)
        lastAttempted == [key |-> k, percentage |-> pct, timestamp |-> ts]
        entry == [score |-> score, total |-> total, percentage |-> pct, timestamp |-> ts]
    IN  [present |-> TRUE,
         entries |-> IF GE(pct, best) THEN Put(data.entries, k, entry) ELSE data.entries,
         last |-> << lastAttempted >>]

\* mergeSlot taking the remote entry on equal percentages whatever the timestamps
mergeSlotTieTakesRemote(acc, remote, k) ==
    IF k[1] \in ReservedKeys \/ k \notin DOMAIN remote THEN acc
    ELSE
        LET remoteEntry == remote[k]
            hasLocal == k \in DOMAIN acc.entries
            localPct == IF hasLocal THEN OrZero(acc.entries[k].percentage) ELSE 0
            replace == ~hasLocal \/ OrZero(remoteEntry.percentage) >= localPct
        IN  [entries |-> IF replace THEN Put(acc.entries, k, remoteEntry) ELSE acc.entries,
             last |-> acc.last]

\* one iteration of the innermost loop of _mergeBackendData for slot k of remote;
\* acc = [entries, last] is the local object being built
mergeSlot(acc, remote, k) ==
    IF k[1] \in ReservedKeys \/ k \notin DOMAIN remote THEN acc
    ELSE
        LET remoteEntry == remote[k]
            hasLocal == k \in DOMAIN acc.entries
            remotePct == OrZero(remoteEntry.percentage)
            localPct == IF hasLocal THEN OrZero(acc.entries[k].percentage) ELSE 0
            localTs == IF hasLocal THEN OrZero(acc.entries[k].timestamp) ELSE 0
            replace == \/ ~hasLocal
                       \/ remotePct > localPct
                       \/ (remotePct = localPct /\ OrZero(remoteEntry.timestamp) > localTs)
            copied == [score |-> remoteEntry.score, total |-> remoteEntry.total,
                       percentage |-> remotePct, timestamp |-> OrZero(remoteEntry.timestamp)]
            entryTs == OrZero(remoteEntry.timestamp)
            newer == acc.last = << >> \/ entryTs > OrZero(acc.last[1].timestamp)
        IN  [entries |-> IF replace THEN Put(acc.entries, k, copied) ELSE acc.entries,
             last |-> IF newer
                      THEN << [key |-> k, percentage |-> remotePct, timestamp |-> entryTs] >>
                      ELSE acc.last]

RECURSIVE mergeFrom(_, _, _)
mergeFrom(acc, remote, i) ==
    IF i > Len(KeyOrder) THEN acc
    ELSE mergeFrom(mergeSlot(acc, remote, KeyOrder[i]), remote, i + 1)

_mergeBackendData(p, remote) ==
    LET local == getAll(p)
        merged == mergeFrom([entries |-> local.entries, last |-> local.last], remote, 1)
    IN  [present |-> TRUE, entries |-> merged.entries, last |-> merged.last]

\* Progress.clearAllSessionData / _clearLocalSession: removeItem(STORAGE_KEY)
clearProgress == NoProgress

----------------------------------------------------------------------------
(* The other keys of the browser's storage, and the scripts of the document *)

\* localStorage.getItem('grammarhub_sync_queue') === null
NoQueue == [present |-> FALSE, items |-> << >>]

\* sessionStorage.getItem('grammarhub_dashboard_cache') === null
NoCache == [present |-> FALSE, valid |-> FALSE]

\* engine.js before init() has loaded a set
NoEngine == [loaded |-> FALSE, key |-> << >>, questions |-> << >>, answers |-> << >>,
             submitted |-> FALSE]

\* _inflightSync === null
NoSync == [pc |-> "idle"]

\* no retryQueue run is awaiting _sendPayload
NoRetry == [pc |-> "idle", queue |-> << >>, i |-> 0, remaining |-> << >>, outcomes |-> << >>]

\* a document that has loaded no script yet, on a browser that holds no key
ClientIdle ==
    /\ syncQueue = NoQueue
    /\ dashCache = NoCache
    /\ lsStudentId = << >>
    /\ syncs = 0
    /\ inflight = {}
    /\ retry = NoRetry
    /\ resent = [t \in 1..MaxSyncs |-> 0]
    /\ session = << >>
    /\ page = "login.html"
    /\ href = ""
    /\ checks = << >>
    /\ logouts = 0
    /\ advances = 0
    /\ revoked = FALSE
    /\ engine = NoEngine
    /\ syncRun = NoSync

----------------------------------------------------------------------------
(* app.js : level page *)

DefaultUnlockAt == 80

\* a subject configuration: unlockAt is a number or is left out
Configs == {[hasUnlockAt |-> FALSE, unlockAt |-> 0]} \cup
           {[hasUnlockAt |-> TRUE, unlockAt |-> u] : u \in {0, 50, 80}}

\* const UNLOCK_AT = config.unlockAt || 80
UNLOCK_AT(c) == IF c.hasUnlockAt /\ c.unlockAt # 0 THEN c.unlockAt ELSE DefaultUnlockAt

\* isUnlocked of the set card: pct !== null && pct >= UNLOCK_AT
isUnlocked(p, c, k) ==
    /\ HasEntry(getAll(p), k)
    /\ getAll(p).entries[k].percentage >= UNLOCK_AT(c)

----------------------------------------------------------------------------
(* Inputs *)

Scores == 0..MaxTotal
\* the total handed to the exported saveResult: a question count (engine.js passes
\* questions.length), or 0
Totals == {0, MaxTotal}
Times == 0..MaxTime

Entries == {[score |-> s, total |-> MaxTotal, percentage |-> Pct(s, MaxTotal), timestamp |-> t] :
                s \in Scores, t \in Times}

\* what the backend can answer for getProgress: any rows of other devices
ReservedSlots == {<<"_meta", "primary", "1">>, <<"success", "primary", "1">>}
ReservedEntry == [score |-> MaxTotal, total |-> MaxTotal, percentage |-> 100, timestamp |-> MaxTime]
SubjectRemotes == UNION {[S -> Entries] : S \in SUBSET StoreKeys}
ReservedRemotes == UNION {[S -> {ReservedEntry}] : S \in SUBSET ReservedSlots}
Join(a, b) == [x \in (DOMAIN a) \cup (DOMAIN b) |-> IF x \in DOMAIN a THEN a[x] ELSE b[x]]
Remotes == {Join(a, b) : a \in SubjectRemotes, b \in ReservedRemotes}

\* answers holding results another device saved at the latest time
LatestEntries == {e \in Entries : e.timestamp = MaxTime}
LatestRemotes == UNION {[S -> LatestEntries] : S \in SUBSET StoreKeys}

----------------------------------------------------------------------------
(* Actions of the progress store *)

NoOp == [name |-> "init", key |-> << >>, pct |-> 0]

SaveResult(k, score, total) ==
    /\ progress' = saveResultStore(progress, k, score, total, now)
    /\ op' = [name |-> "saveResult", key |-> k, pct |-> Pct(score, total)]
    /\ bestSaved' = [bestSaved EXCEPT ![k] =
                        IF Pct(score, total) = NaN THEN @ ELSE Max(@, Pct(score, total))]
    /\ UNCHANGED <<now, remoteIn, config, mergedSince>>
    /\ UNCHANGED <<serverVars, clientVars>>

\* prefetchDashboardData: a non-empty answer of fetchProgress is merged
MergeBackend(remote) ==
    /\ DOMAIN remote # {}
    /\ progress' = _mergeBackendData(progress, remote)
    /\ op' = [name |-> "merge", key |-> << >>, pct |-> 0]
    /\ mergedSince' = TRUE
    /\ UNCHANGED <<now, remoteIn, config, bestSaved>>
    /\ UNCHANGED <<serverVars, clientVars>>

ClearAllSessionData ==
    /\ progress' = clearProgress
    /\ dashCache' = NoCache
    /\ lsStudentId' = << >>
    /\ syncQueue' = NoQueue
    /\ op' = [name |-> "clear", key |-> << >>, pct |-> 0]
    /\ bestSaved' = [k \in StoreKeys |-> NaN]
    /\ mergedSince' = FALSE
    /\ UNCHANGED <<now, remoteIn, config>>
    /\ UNCHANGED <<serverVars, authVars, syncs, inflight, retry, resent>>
    /\ UNCHANGED pageVars

Tick ==
    /\ now < MaxTime
    /\ now' = now + 1
    /\ op' = [name |-> "tick", key |-> << >>, pct |-> 0]
    /\ UNCHANGED <<progress, remoteIn, config, bestSaved, mergedSince>>
    /\ UNCHANGED <<serverVars, clientVars>>


\* data/tenses/std-config.js
TensesConfig == [hasUnlockAt |-> TRUE, unlockAt |-> 80]

\* the backend before any request, with an empty REGISTRATION sheet
ServerIdle ==
    /\ regSheet = << >>
    /\ nextUuid = 0
    /\ issued = << >>
    /\ results = << >>
    /\ locked = {}

InitProgress ==
    /\ progress = NoProgress
    /\ remoteIn = << >>
    /\ config = TensesConfig
    /\ bestSaved = [k \in StoreKeys |-> NaN]
    /\ mergedSince = FALSE
    /\ now = 0
    /\ op = NoOp
    /\ ServerIdle
    /\ ClientIdle

NextProgress ==
    \/ \E k \in StoreKeys, total \in Totals : \E score \in 0..total : SaveResult(k, score, total)
    \/ \E remote \in LatestRemotes : MergeBackend(remote)
    \/ ClearAllSessionData
    \/ Tick

SpecProgress == InitProgress /\ [][NextProgress]_vars

\* the same store under any subject configuration
InitLevel ==
    /\ progress = NoProgress
    /\ remoteIn = << >>
    /\ config \in Configs
    /\ bestSaved = [k \in StoreKeys |-> NaN]
    /\ mergedSince = FALSE
    /\ now = 0
    /\ op = NoOp
    /\ ServerIdle
    /\ ClientIdle

SpecLevel == InitLevel /\ [][NextProgress]_vars

----------------------------------------------------------------------------
(* _mergeBackendData as a function of the local store and the answer *)

\* the lastAttempted a store carries after its entries were saved oldest first
RECURSIVE latestOf(_, _, _)
latestOf(entries, i, best) ==
    IF i > Len(KeyOrder) THEN best
    ELSE LET k == KeyOrder[i] IN
         IF k \in DOMAIN entries /\ (best = << >> \/ entries[k].timestamp >= best[1].timestamp)
         THEN latestOf(entries, i + 1,
                  << [key |-> k, percentage |-> entries[k].percentage,
                      timestamp |-> entries[k].timestamp] >>)
         ELSE latestOf(entries, i + 1, best)

LocalStores ==
    {NoProgress} \cup
    {[present |-> TRUE, entries |-> e, last |-> latestOf(e, 1, << >>)] :
        e \in (UNION {[S -> Entries] : S \in SUBSET StoreKeys}) \ {<< >>}}

InitMerge ==
    /\ progress \in LocalStores
    /\ remoteIn \in Remotes
    /\ DOMAIN remoteIn # {}
    /\ config = TensesConfig
    /\ bestSaved = [k \in StoreKeys |-> NaN]
    /\ mergedSince = FALSE
    /\ now = MaxTime
    /\ op = NoOp
    /\ ServerIdle
    /\ ClientIdle

MergeFetched ==
    /\ op.name = "init"
    /\ MergeBackend(remoteIn)

SpecMerge == InitMerge /\ [][MergeFetched]_vars

----------------------------------------------------------------------------
(* Apps Script backend : REGISTRATION sheet and its request handlers.           *)
(* A request is served as one step; the sheet is read and written by one        *)
(* handler at a time.                                                           *)

RateLimit == 5

\* String(email).trim().toLowerCase() on the spellings a request can carry
LowerEmail(e) == IF e = " A@X" THEN "a@x" ELSE e

\* String(row[STATUS] || '').trim().toLowerCase() on the cell values of the sheet
NormStatus(st) == IF st = " Approved" THEN "approved" ELSE st

CellStatuses == {"approved", " Approved", "pending", "blocked", ""}

\* password.length
PwLen(pw) == IF pw = "" THEN 0 ELSE IF pw = "abc" THEN 3 ELSE 6

\* _hashPassword: SHA-256 of salt + ':' + password, taken as collision free
Hash(pw, salt) == <<salt, pw>>

NoId == << >>
NoToken == 0

\* _findRowByColumn: the first row whose cell matches, 0 for null. The e-mail column is
\* searched without regard to case, the student-id column exactly.
FindRow(sheet, col, searchValue) ==
    IF (col = "email" /\ searchValue = "") \/ (col # "email" /\ searchValue = NoId) THEN 0
    ELSE
        LET hits == {i \in 1..Len(sheet) :
                        IF col = "email"
                        THEN LowerEmail(sheet[i].email) = LowerEmail(searchValue)
                        ELSE sheet[i].studentId = searchValue}
        IN  IF hits = {} THEN 0 ELSE CHOOSE i \in hits : \A j \in hits : i <= j

\* parseInt(cache.get(rateLimitKey) || '0'): the script cache is a best-effort store outside
\* the sheet; what a login reads from it is an input of the request, below the limit or at it
AttemptReadings == {0, RateLimit}

Fail(sheet, uuid, code) ==
    [sheet |-> sheet, uuid |-> uuid,
     success |-> FALSE, code |-> code, token |-> NoToken, studentId |-> NoId]

\* _handleLogin accepting any account whose password matches, whatever its status
_handleLoginAnyStatus(sheet, uuid, attempts, emailIn, password) ==
    LET email == LowerEmail(emailIn)
        i == FindRow(sheet, "email", email)
    IN  IF i = 0 \/ Hash(password, sheet[i].salt) # sheet[i].passwordHash
        THEN Fail(sheet, uuid, "INVALID_CREDENTIALS")
        ELSE [sheet |-> [sheet EXCEPT ![i].lastLogin = uuid + 1,
                                      ![i].activeSessionToken = uuid + 1],
              uuid |-> uuid + 1,
              success |-> TRUE, code |-> "OK", token |-> uuid + 1,
              studentId |-> sheet[i].studentId]

\* _handleLogin. lastLogin is the logical time of the login: the number of UUIDs drawn.
_handleLogin(sheet, uuid, attempts, emailIn, password) ==
    IF emailIn = "" \/ password = "" THEN Fail(sheet, uuid, "MISSING_FIELDS")
    ELSE
        LET email == LowerEmail(emailIn)
            i == FindRow(sheet, "email", email)
            status == NormStatus(sheet[i].status)
        IN  IF attempts >= RateLimit THEN Fail(sheet, uuid, "RATE_LIMITED")
            ELSE IF i = 0 THEN Fail(sheet, uuid, "INVALID_CREDENTIALS")
            ELSE IF status = "pending" THEN Fail(sheet, uuid, "ACCOUNT_PENDING")
            ELSE IF status = "suspended" THEN Fail(sheet, uuid, "ACCOUNT_SUSPENDED")
            ELSE IF status = "rejected" THEN Fail(sheet, uuid, "ACCOUNT_REJECTED")
            ELSE IF status = "blocked" THEN Fail(sheet, uuid, "ACCOUNT_BLOCKED")
            ELSE IF status # "approved" THEN Fail(sheet, uuid, "ACCOUNT_NOT_APPROVED")
            ELSE IF Hash(password, sheet[i].salt) # sheet[i].passwordHash
            THEN Fail(sheet, uuid, "INVALID_CREDENTIALS")
            ELSE [sheet |-> [sheet EXCEPT ![i].lastLogin = uuid + 1,
                                          ![i].activeSessionToken = uuid + 1],
                  uuid |-> uuid + 1,
                  success |-> TRUE, code |-> "OK", token |-> uuid + 1,
                  studentId |-> sheet[i].studentId]

\* _handleCheckSession answering on the account status alone
_handleCheckSessionNoToken(sheet, studentId, token) ==
    LET i == FindRow(sheet, "studentId", studentId)
    IN  IF i = 0 THEN [success |-> FALSE, code |-> "student_not_found"]
        ELSE IF NormStatus(sheet[i].status) # "approved"
        THEN [success |-> FALSE, code |-> "account_not_approved"]
        ELSE [success |-> TRUE, code |-> "OK"]

_handleCheckSession(sheet, studentId, token) ==
    IF studentId = NoId \/ token = NoToken THEN [success |-> FALSE, code |-> "missing_params"]
    ELSE
        LET i == FindRow(sheet, "studentId", studentId)
        IN  IF i = 0 THEN [success |-> FALSE, code |-> "student_not_found"]
            ELSE IF NormStatus(sheet[i].status) # "approved"
            THEN [success |-> FALSE, code |-> "account_not_approved"]
            ELSE IF sheet[i].activeSessionToken = token
            THEN [success |-> TRUE, code |-> "OK"]
            ELSE [success |-> FALSE, code |-> "session_invalid"]

\* _handleLogout (part_001): the stored token is cleared for the student id given
_handleLogout(sheet, studentId) ==
    IF studentId = NoId THEN [sheet |-> sheet, success |-> FALSE, code |-> "MISSING_ID"]
    ELSE
        LET i == FindRow(sheet, "studentId", studentId)
        IN  IF i = 0 THEN [sheet |-> sheet, success |-> FALSE, code |-> "STUDENT_NOT_FOUND"]
            ELSE [sheet |-> [sheet EXCEPT ![i].activeSessionToken = NoToken],
                  success |-> TRUE, code |-> "OK"]

\* _handleRegister: the new row is pending, with no login and no token. The id and the salt
\* come from two UUIDs, counted as one draw.
_handleRegister(sheet, uuid, name, emailIn, password) ==
    IF name = "" \/ emailIn = "" \/ password = ""
    THEN [sheet |-> sheet, uuid |-> uuid, success |-> FALSE, code |-> "MISSING_FIELDS"]
    ELSE IF PwLen(password) < 6
    THEN [sheet |-> sheet, uuid |-> uuid, success |-> FALSE, code |-> "WEAK_PASSWORD"]
    ELSE IF FindRow(sheet, "email", LowerEmail(emailIn)) # 0
    THEN [sheet |-> sheet, uuid |-> uuid, success |-> FALSE, code |-> "EMAIL_EXISTS"]
    ELSE
        LET studentId == <<"STU_", uuid + 1>>
            salt == uuid + 1
        IN  [sheet |-> Append(sheet,
                [studentId |-> studentId, email |-> LowerEmail(emailIn),
                 passwordHash |-> Hash(password, salt), salt |-> salt,
                 status |-> "pending", lastLogin |-> 0,
                 activeSessionToken |-> NoToken]),
             uuid |-> uuid + 1, success |-> TRUE, code |-> "OK"]

RemoveAt(seq, i) == [j \in 1..(Len(seq) - 1) |-> IF j < i THEN seq[j] ELSE seq[j + 1]]

AdminActions == {"approve", "reject", "suspend", "delete"}

\* statusMap. The columns APPROVED_AT and APPROVED_BY, which only _handleListStudents
\* reads, are not part of a row here.
StatusOf(action) ==
    IF action = "approve" THEN "approved"
    ELSE IF action = "reject" THEN "rejected" ELSE "suspended"

_handleAdminActionKeepsToken(sheet, studentId, action) ==
    IF studentId = NoId \/ action = ""
    THEN [sheet |-> sheet, success |-> FALSE, code |-> "MISSING_FIELDS"]
    ELSE IF action \notin AdminActions
    THEN [sheet |-> sheet, success |-> FALSE, code |-> "INVALID_ACTION"]
    ELSE
        LET i == FindRow(sheet, "studentId", studentId)
        IN  IF i = 0 THEN [sheet |-> sheet, success |-> FALSE, code |-> "STUDENT_NOT_FOUND"]
            ELSE IF action = "delete"
            THEN [sheet |-> RemoveAt(sheet, i), success |-> TRUE, code |-> "OK"]
            ELSE [sheet |-> [sheet EXCEPT
                      ![i].status = StatusOf(action)],
                  success |-> TRUE, code |-> "OK"]

_handleAdminAction(sheet, studentId, action) ==
    IF studentId = NoId \/ action = ""
    THEN [sheet |-> sheet, success |-> FALSE, code |-> "MISSING_FIELDS"]
    ELSE IF action \notin AdminActions
    THEN [sheet |-> sheet, success |-> FALSE, code |-> "INVALID_ACTION"]
    ELSE
        LET i == FindRow(sheet, "studentId", studentId)
        IN  IF i = 0 THEN [sheet |-> sheet, success |-> FALSE, code |-> "STUDENT_NOT_FOUND"]
            ELSE IF action = "delete"
            THEN [sheet |-> RemoveAt(sheet, i), success |-> TRUE, code |-> "OK"]
            ELSE [sheet |-> [sheet EXCEPT
                      ![i].status = StatusOf(action),
                      ![i].activeSessionToken =
                          IF action \in {"suspend", "reject"} THEN NoToken ELSE @],
                  success |-> TRUE, code |-> "OK"]

----------------------------------------------------------------------------
(* Requests *)

\* createStudent('STU004', 'John Doe', 'john@school.com', 'password123')
FirstStudent == <<"STU", 4>>

EmailInputs == {"", "a@x", " A@X", "b@x"}
PasswordInputs == {"", "secret", "abc"}
NameInputs == {"", "Ann"}
IdInputs == {NoId, FirstStudent} \cup {<<"STU_", u>> : u \in 1..MaxUuid}
TokenInputs == 0..MaxUuid
ActionInputs == AdminActions \cup {"promote"}

\* a login request served by doPost; locked is left to the caller
LoginRequest(attempts, email, password) ==
    LET r == _handleLogin(regSheet, nextUuid, attempts, email, password) IN
    /\ r.uuid <= MaxUuid
    /\ regSheet' = r.sheet
    /\ nextUuid' = r.uuid
    /\ issued' = IF r.success
                 THEN Put(issued, r.studentId,
                          Append(IF r.studentId \in DOMAIN issued THEN issued[r.studentId]
                                 ELSE << >>, r.token))
                 ELSE issued
    /\ op' = [name |-> "login", email |-> email, success |-> r.success, code |-> r.code]
    /\ UNCHANGED <<results, progressVars, clientVars, now>>

Login(attempts, email, password) ==
    /\ LoginRequest(attempts, email, password)
    /\ UNCHANGED locked

\* the same request, with locked following who has logged in since being locked out
LoginTracked(attempts, email, password) ==
    LET r == _handleLogin(regSheet, nextUuid, attempts, email, password) IN
    /\ LoginRequest(attempts, email, password)
    /\ locked' = IF r.success THEN locked \ {r.studentId} ELSE locked

CheckSession(studentId, token) ==
    LET r == _handleCheckSession(regSheet, studentId, token) IN
    /\ op' = [name |-> "checkSession", studentId |-> studentId, token |-> token,
              success |-> r.success, code |-> r.code]
    /\ UNCHANGED <<serverVars, progressVars, clientVars, now>>

\* the logout request of API.logoutSession carries studentId and activeSessionToken;
\* own tells whether the token it carries is the one the sheet stores for the student
Logout(studentId, token) ==
    LET r == _handleLogout(regSheet, studentId)
        i == FindRow(regSheet, "studentId", studentId)
    IN
    /\ regSheet' = r.sheet
    /\ op' = [name |-> "logout", success |-> r.success,
              own |-> (i # 0 /\ regSheet[i].activeSessionToken = token)]
    /\ UNCHANGED <<nextUuid, issued, results, locked, progressVars, clientVars, now>>

Register(name, email, password) ==
    LET r == _handleRegister(regSheet, nextUuid, name, email, password) IN
    /\ r.uuid <= MaxUuid
    /\ regSheet' = r.sheet
    /\ nextUuid' = r.uuid
    /\ op' = [name |-> "register", success |-> r.success, code |-> r.code]
    /\ UNCHANGED <<issued, results, locked, progressVars, clientVars, now>>

\* an adminAction request served by doPost; locked is left to the caller
AdminRequest(studentId, action) ==
    LET r == _handleAdminAction(regSheet, studentId, action) IN
    /\ regSheet' = r.sheet
    /\ op' = [name |-> "adminAction", action |-> action, success |-> r.success]
    /\ UNCHANGED <<nextUuid, issued, results, progressVars, clientVars, now>>

AdminAction(studentId, action) ==
    /\ AdminRequest(studentId, action)
    /\ UNCHANGED locked

\* the same request, with locked taking in the student a suspend or reject hit
AdminActionTracked(studentId, action) ==
    LET r == _handleAdminAction(regSheet, studentId, action) IN
    /\ AdminRequest(studentId, action)
    /\ locked' = IF r.success /\ action \in {"suspend", "reject"}
                 THEN locked \cup {studentId} ELSE locked

\* the sheet holds the student createStudent added, in any status an administrator set
InitServer ==
    /\ \E st \in CellStatuses :
          regSheet = << [studentId |-> FirstStudent, email |-> "a@x",
                         passwordHash |-> Hash("secret", 0), salt |-> 0,
                         status |-> st, lastLogin |-> 0,
                         activeSessionToken |-> NoToken] >>
    /\ nextUuid = 0
    /\ issued = << >>
    /\ results = << >>
    /\ locked = {}
    /\ progress = NoProgress
    /\ remoteIn = << >>
    /\ config = TensesConfig
    /\ bestSaved = [k \in StoreKeys |-> NaN]
    /\ mergedSince = FALSE
    /\ now = 0
    /\ op = NoOp
    /\ ClientIdle

NextServer ==
    \/ \E a \in AttemptReadings, e \in EmailInputs, pw \in PasswordInputs : Login(a, e, pw)
    \/ \E id \in IdInputs, t \in TokenInputs : CheckSession(id, t)
    \/ \E id \in IdInputs, t \in TokenInputs : Logout(id, t)
    \/ \E n \in NameInputs, e \in EmailInputs, pw \in PasswordInputs : Register(n, e, pw)
    \/ \E id \in IdInputs, a \in ActionInputs : AdminAction(id, a)

SpecServer == InitServer /\ [][NextServer]_vars

\* the requests of the students and of the administrator's panel, with locked kept:
\* the students who were suspended or rejected and have not logged in since
NextAdmin ==
    \/ \E e \in {"a@x", "b@x"}, pw \in {"secret", "abc"} : LoginTracked(0, e, pw)
    \/ \E id \in IdInputs, t \in TokenInputs : CheckSession(id, t)
    \/ \E id \in IdInputs, t \in TokenInputs : Logout(id, t)
    \/ Register("Ann", "b@x", "secret")
    \/ \E id \in IdInputs, a \in AdminActions : AdminActionTracked(id, a)

SpecAdmin == InitServer /\ [][NextAdmin]_vars

----------------------------------------------------------------------------
(* Apps Script backend : RESULTS sheet *)

\* data.studentId || 'anonymous'
Anonymous == <<"anonymous", 0>>

\* createTextFinder(String(data.timestamp)).findNext(): the first row, from the top,
\* that holds the text; 0 when there is none. Of the cells of a row only the
\* timestamp is taken to hold it.
FindNext(rows, ts) ==
    IF \E i \in 1..Len(rows) : rows[i].timestamp = ts
    THEN CHOOSE i \in 1..Len(rows) :
             /\ rows[i].timestamp = ts
             /\ \A j \in 1..(i - 1) : rows[j].timestamp # ts
    ELSE 0

\* the row appendRow adds; t is Date.now() of the script
ResultRow(studentId, data, t) ==
    [studentId |-> studentId, key |-> data.key, score |-> data.score, total |-> data.total,
     percentage |-> IF OrZero(data.percentage) # 0 THEN data.percentage
                    ELSE Pct(data.score, data.total),
     timestamp |-> IF data.timestamp # 0 THEN data.timestamp ELSE t]

\* _handleSaveResult; data.key is << >> when subject, level or set is missing
_handleSaveResult(sheet, rows, data, t) ==
    LET studentId == IF data.studentId = NoId THEN Anonymous ELSE data.studentId
        i == FindRow(sheet, "studentId", studentId)
        found == FindNext(rows, data.timestamp)
    IN
    IF data.key = << >> THEN [rows |-> rows, success |-> FALSE, code |-> "MISSING_FIELDS"]
    ELSE IF studentId # Anonymous /\ i = 0
    THEN [rows |-> rows, success |-> FALSE, code |-> "STUDENT_NOT_FOUND"]
    ELSE IF studentId # Anonymous /\ NormStatus(sheet[i].status) # "approved"
    THEN [rows |-> rows, success |-> FALSE, code |-> "NOT_VERIFIED"]
    ELSE IF /\ data.timestamp # 0
            /\ found # 0
            /\ rows[found].studentId = studentId
            /\ rows[found].key = data.key
    THEN [rows |-> rows, success |-> TRUE, code |-> "duplicate"]
    ELSE [rows |-> Append(rows, ResultRow(studentId, data, t)), success |-> TRUE,
          code |-> "saved"]

\* the timestamps a payload of API.syncResult carries; 0 stands for a request without one
Stamps == 0..MaxSyncs

SaveRequests ==
    {[studentId |-> id, key |-> k, score |-> MaxTotal, total |-> MaxTotal,
      percentage |-> 100, timestamp |-> ts] :
        id \in {NoId, FirstStudent, <<"STU_", 1>>}, k \in StoreKeys \cup {<< >>}, ts \in Stamps}

\* the rows of the sheet that hold the result data names
SavedAs(rows, data) ==
    {i \in 1..Len(rows) :
        /\ rows[i].studentId = (IF data.studentId = NoId THEN Anonymous ELSE data.studentId)
        /\ rows[i].key = data.key
        /\ rows[i].timestamp = data.timestamp}

\* doPost, action 'saveResult'
SaveResultRequest(data, t) ==
    LET r == _handleSaveResult(regSheet, results, data, t) IN
    /\ Len(r.rows) <= MaxResults
    /\ results' = r.rows
    /\ op' = [name |-> "saveResult", success |-> r.success, code |-> r.code,
              resent |-> (data.timestamp # 0 /\ SavedAs(results, data) # {})]
    /\ UNCHANGED <<regSheet, nextUuid, issued, locked, progressVars, clientVars, now>>

\* the sheet holds the approved student createStudent added, and no result
InitResults ==
    /\ regSheet = << [studentId |-> FirstStudent, email |-> "a@x",
                      passwordHash |-> Hash("secret", 0), salt |-> 0,
                      status |-> "approved", lastLogin |-> 0,
                      activeSessionToken |-> NoToken] >>
    /\ nextUuid = 0
    /\ issued = << >>
    /\ results = << >>
    /\ locked = {}
    /\ progress = NoProgress
    /\ remoteIn = << >>
    /\ config = TensesConfig
    /\ bestSaved = [k \in StoreKeys |-> NaN]
    /\ mergedSince = FALSE
    /\ now = 0
    /\ op = NoOp
    /\ ClientIdle

NextResults ==
    \E data \in SaveRequests, t \in Stamps \ {0} : SaveResultRequest(data, t)

SpecResults == InitResults /\ [][NextResults]_vars

----------------------------------------------------------------------------
(* api.js : the offline sync queue.                                             *)
(* An async function is one step per stretch of code between two awaits.        *)
(* The document stays loaded while a retryQueue run is in progress, and runs of *)
(* retryQueue do not overlap.                                                   *)

MAX_RETRIES == 3

\* how a fetch of _sendPayload can end
SendOutcomes == {"ok", "http_error", "network_error"}

\* _sendPayload: success exactly when fetch returned and res.ok
_sendPayload(outcome) == [success |-> outcome = "ok"]

\* JSON.parse(localStorage.getItem(QUEUE_KEY)) || []
_getQueue(q) == IF q.present THEN q.items ELSE << >>

\* localStorage.setItem(QUEUE_KEY, JSON.stringify(queue))
_saveQueue(items) == [present |-> TRUE, items |-> items]

\* the id getStudentId() generates when the key is absent
GeneratedId == "STU_gen"

getStudentId(id) == IF id = << >> \/ id[1] = "" THEN GeneratedId ELSE id[1]

\* Progress.invalidateCache
invalidateCache(c) == IF c.present THEN [c EXCEPT !.valid = FALSE] ELSE c

\* { ...payload, retries: 0 }
Queued(payload, r) == payload @@ [retries |-> r]

\* engine.js hands over questions.length, which is at least 1
SyncTotals == {MaxTotal}

\* engine.js, _submitQuiz on practice.html: API.syncResult up to its await, the
\* payload is built and handed to fetch.
\* timestamp stands for Date.now() of the call; two calls never share it.
SyncResultSend(k, score, total) ==
    /\ page = "practice.html"
    /\ syncs < MaxSyncs
    /\ syncs' = syncs + 1
    /\ lsStudentId' = << getStudentId(lsStudentId) >>
    /\ inflight' = inflight \cup
           {[studentId |-> getStudentId(lsStudentId), key |-> k, score |-> score,
             total |-> total, percentage |-> Pct(score, total), timestamp |-> syncs + 1]}
    /\ op' = [name |-> "syncResultSend", key |-> k, pct |-> Pct(score, total)]
    /\ UNCHANGED <<syncQueue, dashCache, retry, resent>>
    /\ UNCHANGED <<progressVars, serverVars, authVars, now>>
    /\ UNCHANGED pageVars

\* the queue API.syncResult leaves behind once _sendPayload has answered
syncResultQueueOnlyNew(q, payload, outcome) ==
    IF _sendPayload(outcome).success THEN q
    ELSE _saveQueue(<< Queued(payload, 0) >>)

syncResultQueue(q, payload, outcome) ==
    IF _sendPayload(outcome).success THEN q
    ELSE _saveQueue(Append(_getQueue(q), Queued(payload, 0)))

\* API.syncResult after its await
SyncResultDone(payload, outcome) ==
    /\ payload \in inflight
    /\ inflight' = inflight \ {payload}
    /\ syncQueue' = syncResultQueue(syncQueue, payload, outcome)
    /\ dashCache' = IF _sendPayload(outcome).success THEN invalidateCache(dashCache)
                    ELSE dashCache
    /\ op' = [name |-> "syncResult", payload |-> payload, outcome |-> outcome]
    /\ UNCHANGED <<lsStudentId, syncs, retry, resent>>
    /\ UNCHANGED <<progressVars, serverVars, authVars, now>>
    /\ UNCHANGED pageVars

\* API.retryQueue up to its first await: the queue is read and its first item sent
RetryQueueStart ==
    /\ retry.pc = "idle"
    /\ retry' = IF Len(_getQueue(syncQueue)) = 0 THEN NoRetry
                ELSE [pc |-> "sending", queue |-> _getQueue(syncQueue), i |-> 1,
                      remaining |-> << >>, outcomes |-> << >>]
    /\ op' = [name |-> "retryQueueStart", items |-> Len(_getQueue(syncQueue))]
    /\ UNCHANGED <<syncQueue, dashCache, lsStudentId, syncs, inflight, resent>>
    /\ UNCHANGED <<progressVars, serverVars, authVars, now>>
    /\ UNCHANGED pageVars

\* the list of kept items after the answer for item
retryKeepUpToMax(remaining, item, outcome) ==
    IF _sendPayload(outcome).success THEN remaining
    ELSE IF item.retries + 1 <= MAX_RETRIES
         THEN Append(remaining, [item EXCEPT !.retries = @ + 1])
         ELSE remaining

retryKeep(remaining, item, outcome) ==
    IF _sendPayload(outcome).success THEN remaining
    ELSE IF item.retries + 1 < MAX_RETRIES
         THEN Append(remaining, [item EXCEPT !.retries = @ + 1])
         ELSE remaining

\* API.retryQueue after an await: the answer for item i is handled, then the next
\* item is sent or, after the last one, the kept items are saved
RetryQueueReply(outcome) ==
    LET item == retry.queue[retry.i]
        kept == retryKeep(retry.remaining, item, outcome)
        last == retry.i = Len(retry.queue)
    IN
    /\ retry.pc = "sending"
    /\ resent' = [resent EXCEPT ![item.timestamp] = @ + 1]
    /\ retry' = IF last THEN NoRetry
                ELSE [retry EXCEPT !.i = @ + 1, !.remaining = kept,
                                   !.outcomes = Append(@, outcome)]
    /\ syncQueue' = IF last THEN _saveQueue(kept) ELSE syncQueue
    /\ op' = [name |-> "retryQueue", queue |-> retry.queue,
              outcomes |-> Append(retry.outcomes, outcome), done |-> last]
    /\ UNCHANGED <<dashCache, lsStudentId, syncs, inflight>>
    /\ UNCHANGED <<progressVars, serverVars, authVars, now>>
    /\ UNCHANGED pageVars

\* a browser after login, before any result was synced
InitQueue ==
    /\ progress = NoProgress
    /\ remoteIn = << >>
    /\ config = TensesConfig
    /\ bestSaved = [k \in StoreKeys |-> NaN]
    /\ mergedSince = FALSE
    /\ now = 0
    /\ op = NoOp
    /\ ServerIdle
    /\ syncQueue = NoQueue
    /\ dashCache \in {NoCache, [present |-> TRUE, valid |-> TRUE]}
    /\ lsStudentId \in {<< >>, << "STU004" >>}
    /\ syncs = 0
    /\ inflight = {}
    /\ retry = NoRetry
    /\ resent = [t \in 1..MaxSyncs |-> 0]
    /\ session = << >>
    /\ page = "practice.html"
    /\ href = ""
    /\ checks = << >>
    /\ logouts = 0
    /\ advances = 0
    /\ revoked = FALSE
    /\ engine = NoEngine
    /\ syncRun = NoSync

NextQueue ==
    \/ \E k \in StoreKeys, total \in SyncTotals : \E score \in {0, total} :
           SyncResultSend(k, score, total)
    \/ \E payload \in inflight, outcome \in SendOutcomes : SyncResultDone(payload, outcome)
    \/ RetryQueueStart
    \/ \E outcome \in SendOutcomes : RetryQueueReply(outcome)

SpecQueue == InitQueue /\ [][NextQueue]_vars

----------------------------------------------------------------------------
(* auth-guard.js : the stored session, checkAuth and logout; the top-level code *)
(* of login.js, app.js and profile.js. A document's pending continuations end   *)
(* when another document is loaded. Date.now() never decreases.                 *)

SESSION_MAX_AGE == 86400000
CHECK_INTERVAL_MS == 120000

\* getSession: the stored session, or null (<< >>) when the key is absent or a
\* required field is falsy
getSession(s) ==
    IF s = << >> THEN << >>
    ELSE IF s[1].studentId = "" \/ s[1].activeSessionToken = NoToken \/ s[1].loginAt = 0
         THEN << >>
         ELSE s

\* the value createSession stores under SESSION_KEY at time t
createSession(studentId, token, t) ==
    << [studentId |-> studentId, activeSessionToken |-> token, loginAt |-> t,
        expiresAt |-> t + SESSION_MAX_AGE, lastChecked |-> t, verified |-> FALSE] >>

isAuthenticatedNoExpiry(s, t) ==
    getSession(s) # << >>

isAuthenticated(s, t) ==
    /\ getSession(s) # << >>
    /\ ~(t > getSession(s)[1].expiresAt)

\* the five keys the scripts keep in localStorage and sessionStorage
LocalData ==
    [session |-> session, progress |-> progress, studentId |-> lsStudentId,
     queue |-> syncQueue, cache |-> dashCache]

\* the keys of d that exist
KeysOf(d) ==
    {k \in {"session", "progress", "studentId", "queue", "cache"} :
        \/ k = "session" /\ d.session # << >>
        \/ k = "progress" /\ d.progress.present
        \/ k = "studentId" /\ d.studentId # << >>
        \/ k = "queue" /\ d.queue.present
        \/ k = "cache" /\ d.cache.present}

\* Progress.clearAllSessionData
clearAllSessionData(d) ==
    [d EXCEPT !.cache = NoCache, !.progress = clearProgress, !.studentId = << >>,
              !.queue = NoQueue]

_clearLocalSessionKeepsSession(d) ==
    [d EXCEPT !.progress = clearProgress, !.studentId = << >>,
              !.queue = NoQueue, !.cache = NoCache]

_clearLocalSession(d) ==
    [d EXCEPT !.session = << >>, !.progress = clearProgress, !.studentId = << >>,
              !.queue = NoQueue, !.cache = NoCache]

\* _redirectToLogin: the value of window.location.href afterwards
_redirectToLogin(pg, cur, reason) ==
    IF pg = "login.html" THEN cur
    ELSE IF reason = "session_revoked" THEN "login.html?reason=session_revoked"
    ELSE "login.html"

\* how the fetch of API.checkSession can end: a body with success true or false,
\* a status that is not OK, or no answer
CheckAnswers == {"success", "refused", "http_error", "network_error"}

\* API.checkSession
checkSession(answer) == [success |-> answer \in {"success", "network_error"}]

\* checkAuth up to its await: what the call does with the session it reads
checkAuthEntry(s, t) ==
    IF getSession(s) = << >> THEN "redirect"
    ELSE IF t > getSession(s)[1].expiresAt THEN "logout"
    ELSE IF getSession(s)[1].lastChecked = 0
            \/ t - getSession(s)[1].lastChecked > CHECK_INTERVAL_MS THEN "check"
    ELSE "return"

\* the checkAuth calls a document can have pending
CheckSlots == {1, 2}

Pages == {"login.html", "index.html", "profile.html", "practice.html"}

\* number of checkAuth calls the scripts of a document make while loading:
\* app.js makes one, profile.js imports app.js and makes another
GuardCalls(pg) ==
    IF pg = "index.html" THEN 1 ELSE IF pg = "profile.html" THEN 2 ELSE 0

\* the five keys take the values of d
Store(d) ==
    /\ session' = d.session
    /\ progress' = d.progress
    /\ lsStudentId' = d.studentId
    /\ syncQueue' = d.queue
    /\ dashCache' = d.cache
    /\ bestSaved' = IF d.progress.present THEN bestSaved ELSE [k \in StoreKeys |-> NaN]
    /\ mergedSince' = (d.progress.present /\ mergedSince)

\* the browser loads a document and runs the top-level code of its scripts
Open(target) ==
    LET auth == isAuthenticated(session, now)
        entry == checkAuthEntry(session, now)
        calls == IF auth THEN GuardCalls(target) ELSE 0
    IN
    /\ page' = target
    /\ href' = IF target = "login.html" THEN (IF auth THEN "index.html" ELSE "")
               ELSE IF GuardCalls(target) = 0 THEN ""
               ELSE IF ~auth THEN "login.html"
               ELSE IF entry = "redirect" THEN _redirectToLogin(target, "", "")
               ELSE ""
    /\ checks' = IF entry = "check"
                 THEN [i \in 1..calls |-> [session |-> getSession(session)[1], now |-> now]]
                 ELSE << >>
    /\ logouts' = IF entry = "logout" THEN calls ELSE 0
    /\ inflight' = {}
    /\ retry' = NoRetry
    /\ op' = [name |-> "open", page |-> target, authenticated |-> auth]
    /\ UNCHANGED <<session, advances, revoked, syncQueue, dashCache, lsStudentId, syncs, resent>>
    /\ UNCHANGED <<progressVars, serverVars, now>>
    /\ engine' = NoEngine
    /\ syncRun' = NoSync

\* checkAuth after its await
CheckAuthReply(i, answer) ==
    LET c == checks[i]
        ok == checkSession(answer).success
    IN
    /\ i \in DOMAIN checks
    /\ checks' = [j \in DOMAIN checks \ {i} |-> checks[j]]
    /\ IF ok
       THEN /\ session' = << [c.session EXCEPT !.lastChecked = c.now, !.verified = TRUE] >>
            /\ UNCHANGED <<progress, bestSaved, mergedSince, lsStudentId, syncQueue,
                           dashCache, href, revoked>>
       ELSE /\ Store(_clearLocalSession(LocalData))
            /\ href' = _redirectToLogin(page, href, "session_revoked")
            /\ revoked' = TRUE
    /\ op' = [name |-> "checkAuth", answer |-> answer, success |-> ok,
              returned |-> IF ok THEN "session" ELSE "null"]
    /\ UNCHANGED <<remoteIn, config, page, logouts, advances, syncs, inflight, retry, resent>>
    /\ UNCHANGED <<serverVars, now>>
    /\ UNCHANGED pageVars

\* the logout button of profile.html, wired once profile.js is past its checkAuth:
\* logout() up to its await
LogoutStart ==
    /\ page = "profile.html"
    /\ 2 \notin DOMAIN checks
    /\ logouts = 0
    /\ logouts' = 1
    /\ op' = [name |-> "logoutStart", hasSession |-> getSession(session) # << >>]
    /\ UNCHANGED <<session, page, href, checks, advances, revoked>>
    /\ UNCHANGED <<progressVars, serverVars, queueVars, now>>
    /\ UNCHANGED pageVars

\* logout() after its await; server is how the fire-and-forget API.logoutSession ended
LogoutDone(imported, server) ==
    LET d == IF imported THEN clearAllSessionData(LocalData) ELSE LocalData IN
    /\ logouts > 0
    /\ logouts' = logouts - 1
    /\ Store(_clearLocalSession(d))
    /\ href' = _redirectToLogin(page, href, "")
    /\ op' = [name |-> "logoutDone", server |-> server, cleared |-> KeysOf(LocalData)]
    /\ UNCHANGED <<remoteIn, config, page, checks, advances, revoked, syncs, inflight,
                   retry, resent>>
    /\ UNCHANGED <<serverVars, now>>
    /\ UNCHANGED pageVars

Delays == {1, CHECK_INTERVAL_MS, SESSION_MAX_AGE}

Advance(d) ==
    /\ advances < MaxAdvances
    /\ advances' = advances + 1
    /\ now' = now + d
    /\ op' = [name |-> "advance", by |-> d]
    /\ UNCHANGED <<session, page, href, checks, logouts, revoked>>
    /\ UNCHANGED <<progressVars, serverVars, queueVars>>
    /\ UNCHANGED pageVars

\* login.js, submit handler: createSession with what API.login answered
CreateSession(studentId, token) ==
    /\ page = "login.html"
    /\ session' = createSession(studentId, token, now)
    /\ lsStudentId' = << studentId >>
    /\ progress' = getAll(progress)
    /\ revoked' = FALSE
    /\ op' = [name |-> "createSession", studentId |-> studentId, token |-> token]
    /\ UNCHANGED <<remoteIn, config, bestSaved, mergedSince>>
    /\ UNCHANGED <<page, href, checks, logouts, advances>>
    /\ UNCHANGED <<syncQueue, dashCache, syncs, inflight, retry, resent>>
    /\ UNCHANGED <<serverVars, now>>
    /\ UNCHANGED pageVars

\* answers API.fetchProgress can give to the prefetch: nothing, or one result
PrefetchAnswers ==
    {<< >>, [k \in {<<"tenses", "primary", "1">>} |-> ReservedEntry]}

\* login.js, submit handler: Progress.prefetchDashboardData after createSession
Prefetch(remote, profile) ==
    LET merged == IF DOMAIN remote # {} THEN _mergeBackendData(progress, remote)
                  ELSE progress
    IN
    /\ page = "login.html"
    /\ getSession(session) # << >>
    /\ progress' = IF profile THEN getAll(merged) ELSE merged
    /\ mergedSince' = (mergedSince \/ DOMAIN remote # {})
    /\ dashCache' = [present |-> TRUE, valid |-> TRUE]
    /\ op' = [name |-> "prefetch", merged |-> DOMAIN remote # {}, profile |-> profile]
    /\ UNCHANGED <<remoteIn, config, bestSaved>>
    /\ UNCHANGED <<syncQueue, lsStudentId, syncs, inflight, retry, resent>>
    /\ UNCHANGED <<serverVars, authVars, now>>
    /\ UNCHANGED pageVars

SessionIds == {"", "STU004"}
SessionTokens == {NoToken, 1}

\* a browser that holds no key, showing login.html; of the sync queue this
\* specification follows one undelivered result at a time
InitAuth ==
    /\ progress = NoProgress
    /\ remoteIn = << >>
    /\ config = TensesConfig
    /\ bestSaved = [k \in StoreKeys |-> NaN]
    /\ mergedSince = FALSE
    /\ now = 1
    /\ op = NoOp
    /\ ServerIdle
    /\ ClientIdle

NextAuth ==
    \/ \E target \in Pages : Open(target)
    \/ \E i \in CheckSlots, answer \in CheckAnswers : CheckAuthReply(i, answer)
    \/ LogoutStart
    \/ \E imported \in BOOLEAN, server \in SendOutcomes : LogoutDone(imported, server)
    \/ \E d \in Delays : Advance(d)
    \/ \E id \in SessionIds, t \in SessionTokens : CreateSession(id, t)
    \/ \E remote \in PrefetchAnswers, profile \in BOOLEAN : Prefetch(remote, profile)
    \/ /\ inflight = {}
       /\ ~syncQueue.present
       /\ SyncResultSend(<<"tenses", "primary", "1">>, MaxTotal, MaxTotal)
    \/ \E payload \in inflight : SyncResultDone(payload, "network_error")

SpecAuth == InitAuth /\ [][NextAuth]_vars

----------------------------------------------------------------------------
(* engine.js : the quiz of practice.html *)

\* an item of a set file: the index of its correct option (the first one, the
\* option picked is what varies), and whether it passes the filter of
\* validateQuestions
RawItems == {[answer |-> 0, valid |-> v] : v \in BOOLEAN}

RawSets == UNION {[1..n -> RawItems] : n \in 0..MaxQuestions}

validateQuestions(raw) == SelectSeq(raw, LAMBDA q : q.valid)

\* init() once the set file is fetched; questions and answers are indexed from 1 here
LoadSet(k, raw) ==
    /\ page = "practice.html"
    /\ ~engine.loaded
    /\ engine.questions = << >>
    /\ engine' = IF Len(validateQuestions(raw)) = 0
                 THEN [engine EXCEPT !.key = k]
                 ELSE [loaded |-> TRUE, key |-> k, questions |-> validateQuestions(raw),
                       answers |-> << >>, submitted |-> FALSE]
    /\ op' = [name |-> "loadSet", key |-> k, pct |-> Len(validateQuestions(raw))]
    /\ UNCHANGED <<syncRun, progressVars, serverVars, queueVars, authVars, now>>

\* _selectMCQ / _selectFill: the option picked for question q
SelectAnswer(q, opt) ==
    /\ engine.loaded
    /\ q \in 1..Len(engine.questions)
    /\ engine' = IF engine.submitted THEN engine
                 ELSE [engine EXCEPT !.answers = Put(@, q, opt)]
    /\ op' = [name |-> "select", key |-> engine.key, pct |-> q]
    /\ UNCHANGED <<syncRun, progressVars, serverVars, queueVars, authVars, now>>

\* the guard of _submitQuiz: Object.keys(answers).length < questions.length
unansweredFewerThanOne(e) == Cardinality(DOMAIN e.answers) < 1

unanswered(e) == Cardinality(DOMAIN e.answers) < Len(e.questions)

\* _revealMCQ / _revealFill summed over the questions
RECURSIVE scoreOf(_, _)
scoreOf(e, q) ==
    IF q > Len(e.questions) THEN 0
    ELSE (IF q \in DOMAIN e.answers /\ e.answers[q] = e.questions[q].answer THEN 1 ELSE 0)
         + scoreOf(e, q + 1)

\* _submitQuiz, the click handler of the submit button _render installs
SubmitQuiz ==
    LET records == ~engine.submitted /\ ~unanswered(engine)
        score == scoreOf(engine, 1)
        total == Len(engine.questions)
    IN
    /\ engine.loaded
    /\ records => syncs < MaxSyncs
    /\ op' = [name |-> "submitQuiz", key |-> engine.key, pct |-> Pct(score, total),
              recorded |-> records]
    /\ IF records
       THEN /\ engine' = [engine EXCEPT !.submitted = TRUE]
            /\ progress' = saveResultStore(progress, engine.key, score, total, now)
            /\ bestSaved' = [bestSaved EXCEPT ![engine.key] = Max(@, Pct(score, total))]
            /\ syncs' = syncs + 1
            /\ lsStudentId' = << getStudentId(lsStudentId) >>
            /\ inflight' = inflight \cup
                   {[studentId |-> getStudentId(lsStudentId), key |-> engine.key,
                     score |-> score, total |-> total, percentage |-> Pct(score, total),
                     timestamp |-> syncs + 1]}
       ELSE UNCHANGED <<engine, progress, bestSaved, syncs, lsStudentId, inflight>>
    /\ UNCHANGED <<remoteIn, config, mergedSince, syncQueue, dashCache, retry, resent>>
    /\ UNCHANGED <<syncRun, serverVars, authVars, now>>

\* practice.html open in a browser after login, before the set file has arrived
InitEngine ==
    /\ progress = NoProgress
    /\ remoteIn = << >>
    /\ config = TensesConfig
    /\ bestSaved = [k \in StoreKeys |-> NaN]
    /\ mergedSince = FALSE
    /\ now = 0
    /\ op = NoOp
    /\ ServerIdle
    /\ syncQueue = NoQueue
    /\ dashCache = NoCache
    /\ lsStudentId = << "STU004" >>
    /\ syncs = 0
    /\ inflight = {}
    /\ retry = NoRetry
    /\ resent = [t \in 1..MaxSyncs |-> 0]
    /\ session = << >>
    /\ page = "practice.html"
    /\ href = ""
    /\ checks = << >>
    /\ logouts = 0
    /\ advances = 0
    /\ revoked = FALSE
    /\ engine = NoEngine
    /\ syncRun = NoSync

NextEngine ==
    \/ \E k \in StoreKeys, raw \in RawSets : LoadSet(k, raw)
    \/ \E q \in 1..MaxQuestions, opt \in {0, 1} : SelectAnswer(q, opt)
    \/ SubmitQuiz
    \/ Open("practice.html")

SpecEngine == InitEngine /\ [][NextEngine]_vars

----------------------------------------------------------------------------
(* progress.js : the cache-first sync of index.html and profile.html *)

\* how a GET of api.js ends for its caller: fetch rejects, res.ok is false, the
\* timer of withTimeout wins the race, or the JSON body arrives
FetchFailures == {"network_error", "http_error", "timeout"}

\* API.fetchProgress as prefetchDashboardData sees it; body is << >> for null
ProgressReplies ==
    {[status |-> f, body |-> << >>] : f \in FetchFailures} \cup
    {[status |-> "ok", body |-> b] : b \in PrefetchAnswers}

\* API.getStudentDetails as prefetchDashboardData sees it
ProfileReplies ==
    {[status |-> f, success |-> FALSE] : f \in FetchFailures} \cup
    {[status |-> "ok", success |-> b] : b \in BOOLEAN}

_hasValidCacheNever(c) == FALSE

_hasValidCache(c) == c.present /\ c.valid

\* prefetchDashboardData from the replies of its two fetches to its return;
\* BACKEND_URL is a non-empty constant and sid is a non-empty string here
prefetchDashboardData(p, remote, profile) ==
    LET merged == IF remote.status = "ok" /\ DOMAIN remote.body # {}
                  THEN _mergeBackendData(p, remote.body) ELSE p
    IN  [progress |-> IF profile.status = "ok" /\ profile.success
                      THEN getAll(merged) ELSE merged,
         cache |-> [present |-> TRUE, valid |-> TRUE],
         returned |-> TRUE]

\* Progress.syncFromBackend up to its return, a promise or true
SyncFromBackend ==
    /\ page \in {"index.html", "profile.html"}
    /\ IF syncRun # NoSync
       THEN /\ op' = [name |-> "syncFromBackend", returned |-> "inflight", requests |-> 0]
            /\ UNCHANGED syncRun
       ELSE IF _hasValidCache(dashCache)
       THEN /\ op' = [name |-> "syncFromBackend", returned |-> "true", requests |-> 0]
            /\ UNCHANGED syncRun
       ELSE /\ op' = [name |-> "syncFromBackend", returned |-> "promise", requests |-> 0]
            /\ syncRun' = [pc |-> "import"]
    /\ UNCHANGED <<engine, progressVars, serverVars, queueVars, authVars, now>>

\* the run of syncFromBackend after its import: getStudentId, then
\* prefetchDashboardData up to its Promise.all, both GETs handed to fetch
SyncFetch ==
    /\ syncRun = [pc |-> "import"]
    /\ syncRun' = [pc |-> "fetching"]
    /\ lsStudentId' = << getStudentId(lsStudentId) >>
    /\ op' = [name |-> "syncFetch", returned |-> "promise", requests |-> 2]
    /\ UNCHANGED <<syncQueue, dashCache, syncs, inflight, retry, resent>>
    /\ UNCHANGED <<engine, progressVars, serverVars, authVars, now>>

\* the rest of the run: prefetchDashboardData after Promise.all, and the finally
\* of syncFromBackend
SyncDone(remote, profile) ==
    LET r == prefetchDashboardData(progress, remote, profile)
    IN
    /\ syncRun = [pc |-> "fetching"]
    /\ syncRun' = NoSync
    /\ progress' = r.progress
    /\ mergedSince' = (mergedSince \/ (remote.status = "ok" /\ DOMAIN remote.body # {}))
    /\ dashCache' = r.cache
    /\ op' = [name |-> "syncDone", returned |-> r.returned,
              obtained |-> (remote.status = "ok" \/ profile.status = "ok")]
    /\ UNCHANGED <<remoteIn, config, bestSaved>>
    /\ UNCHANGED <<syncQueue, lsStudentId, syncs, inflight, retry, resent>>
    /\ UNCHANGED <<engine, serverVars, authVars, now>>

\* the dashboard cache as an earlier document of the session can have left it
Caches == {NoCache, [present |-> TRUE, valid |-> TRUE], [present |-> TRUE, valid |-> FALSE]}

\* index.html open in a browser that is logged in
InitSync ==
    /\ progress \in {p \in LocalStores : \A k \in StoreKeys :
                         HasEntry(p, k) => p.entries[k] = ReservedEntry}
    /\ remoteIn = << >>
    /\ config = TensesConfig
    /\ bestSaved = [k \in StoreKeys |-> NaN]
    /\ mergedSince = FALSE
    /\ now = 1
    /\ op = NoOp
    /\ ServerIdle
    /\ syncQueue = NoQueue
    /\ dashCache \in Caches
    /\ lsStudentId \in {<< >>, << "STU004" >>}
    /\ syncs = 0
    /\ inflight = {}
    /\ retry = NoRetry
    /\ resent = [t \in 1..MaxSyncs |-> 0]
    /\ session = createSession("STU004", 1, 1)
    /\ page = "index.html"
    /\ href = ""
    /\ checks = << >>
    /\ logouts = 0
    /\ advances = 0
    /\ revoked = FALSE
    /\ engine = NoEngine
    /\ syncRun = NoSync

NextSync ==
    \/ SyncFromBackend
    \/ SyncFetch
    \/ \E remote \in ProgressReplies, profile \in ProfileReplies : SyncDone(remote, profile)
    \/ \E target \in Pages \ {"login.html"} : Open(target)
    \/ /\ inflight = {}
       /\ SyncResultSend(<<"tenses", "primary", "1">>, MaxTotal, MaxTotal)
    \/ \E payload \in inflight : SyncResultDone(payload, "ok")

SpecSync == InitSync /\ [][NextSync]_vars

----------------------------------------------------------------------------
(* Properties of the progress store *)

PctOf(p, k) == p.entries[k].percentage

\* C1: best score is kept. Outside clearAllSessionData, a stored entry stays and its
\* percentage never decreases; a saveResult scoring lower than the stored best leaves the
\* entry as it is; and while no merge has run since the last clear, the stored percentage of
\* a set is the maximum percentage passed through saveResult for it (no entry when none was).
BestNeverDecreases ==
    op'.name # "clear" =>
        \A k \in StoreKeys :
            HasEntry(progress, k) =>
                /\ HasEntry(progress', k)
                /\ PctOf(progress', k) >= PctOf(progress, k)

LowerAttemptKeepsEntry ==
    op'.name = "saveResult" =>
        \A k \in StoreKeys :
            (HasEntry(progress, k) /\ (k # op'.key \/ ~GE(op'.pct, PctOf(progress, k)))) =>
                (HasEntry(progress', k) /\ progress'.entries[k] = progress.entries[k])

StoredIsMaxOfSaves ==
    ~mergedSince =>
        \A k \in StoreKeys :
            IF bestSaved[k] = NaN THEN ~HasEntry(progress, k)
            ELSE HasEntry(progress, k) /\ PctOf(progress, k) = bestSaved[k]

C1_BestScoreKept ==
    [][BestNeverDecreases /\ LowerAttemptKeepsEntry /\ StoredIsMaxOfSaves']_vars

\* a lower attempt was just passed to saveResult while a better entry was stored
C1_Witness ==
    /\ op.name = "saveResult"
    /\ op.pct # NaN
    /\ HasEntry(progress, op.key)
    /\ op.pct < PctOf(progress, op.key)
    /\ bestSaved[op.key] = 100

\* the condition under which the merge rule takes the remote entry of slot k
TakesRemote(p, remote, k) ==
    \/ ~HasEntry(p, k)
    \/ remote[k].percentage > PctOf(p, k)
    \/ (remote[k].percentage = PctOf(p, k) /\ remote[k].timestamp > p.entries[k].timestamp)

\* C2: merge rule of _mergeBackendData. For every set present in the remote data the local
\* entry becomes the remote entry when there was no local entry, or the remote percentage is
\* strictly higher, or the percentages are equal and the remote timestamp strictly later, and
\* is unchanged otherwise; sets absent from the remote data keep their entry (or stay
\* absent); '_meta' and 'success' never become subjects of the local store.
MergeRule ==
    op'.name = "merge" =>
        /\ DOMAIN progress'.entries \subseteq StoreKeys
        /\ \A k \in StoreKeys :
              IF k \in DOMAIN remoteIn
              THEN /\ HasEntry(progress', k)
                   /\ progress'.entries[k] =
                        IF TakesRemote(progress, remoteIn, k) THEN remoteIn[k]
                        ELSE progress.entries[k]
              ELSE /\ HasEntry(progress', k) <=> HasEntry(progress, k)
                   /\ HasEntry(progress, k) => progress'.entries[k] = progress.entries[k]

C2_MergeRule == [][MergeRule]_vars

\* a merge ran on an answer carrying '_meta' and 'success', kept one local entry against an
\* equal percentage with an older timestamp and took another remote entry
C2_Witness ==
    /\ op.name = "merge"
    /\ ReservedSlots \subseteq DOMAIN remoteIn
    /\ \E k \in StoreKeys :
          /\ k \in DOMAIN remoteIn
          /\ progress.entries[k].percentage = remoteIn[k].percentage
          /\ progress.entries[k].timestamp > remoteIn[k].timestamp
    /\ \E k \in StoreKeys : k \in DOMAIN remoteIn /\ progress.entries[k] = remoteIn[k]

\* the threshold as the subject configuration states it, 80 when it states none
ConfiguredThreshold(c) == IF c.hasUnlockAt THEN c.unlockAt ELSE DefaultUnlockAt

\* C10: on the level page the PDF of a set is unlocked exactly when the stored result of
\* the set has a percentage of at least the subject's unlockAt (80 when not configured).
C10_UnlockIffThreshold ==
    \A k \in StoreKeys :
        isUnlocked(progress, config, k) <=>
            (HasEntry(progress, k) /\ PctOf(progress, k) >= ConfiguredThreshold(config))

----------------------------------------------------------------------------
(* Properties of the backend *)

LatestIssued(id) == IF id \in DOMAIN issued THEN issued[id][Len(issued[id])] ELSE NoToken

\* C3: single-device enforcement. In every state the backend reaches through login,
\* checkSession, logout, register and adminAction requests, a token that makes checkSession
\* succeed for a student is the token the student's most recent successful login returned;
\* so at most one token succeeds, and a token issued before a later login is refused.
C3_SingleDevice ==
    \A id \in IdInputs, t \in TokenInputs :
        _handleCheckSession(regSheet, id, t).success =>
            (t # NoToken /\ t = LatestIssued(id))

\* the first of two tokens issued to one student was just refused, the second is accepted
C3_Witness ==
    /\ op.name = "checkSession"
    /\ op.code = "session_invalid"
    /\ op.studentId \in DOMAIN issued
    /\ Len(issued[op.studentId]) >= 2
    /\ op.token = issued[op.studentId][1]
    /\ _handleCheckSession(regSheet, op.studentId, LatestIssued(op.studentId)).success

RowsOfEmail(e) == {i \in 1..Len(regSheet) : regSheet[i].email = LowerEmail(e)}

MayLogin(i, pw) ==
    /\ NormStatus(regSheet[i].status) = "approved"
    /\ regSheet[i].passwordHash = Hash(pw, regSheet[i].salt)

StoredTokens == {regSheet[i].activeSessionToken : i \in 1..Len(regSheet)}

\* C9: backend login gating. For every login request, the answer is a success only when the
\* account of the e-mail is approved and the salted hash of the password matches, and then a
\* token not stored before is stored for that account; when the account is in any other
\* status (pending, suspended, rejected, blocked, other), the password is wrong or the e-mail
\* unknown, the answer is a failure; every failure leaves the sheet (tokens and lastLogin)
\* as it was. A successful register request adds a pending account without a token.
C9_LoginGate ==
    /\ \A a \in AttemptReadings, e \in EmailInputs, pw \in PasswordInputs :
          LET r == _handleLogin(regSheet, nextUuid, a, e, pw) IN
          /\ r.success =>
                \E i \in RowsOfEmail(e) :
                    /\ MayLogin(i, pw)
                    /\ r.token # NoToken
                    /\ r.token \notin StoredTokens
                    /\ r.sheet[i].activeSessionToken = r.token
          /\ (\A i \in RowsOfEmail(e) : ~MayLogin(i, pw)) => ~r.success
          /\ ~r.success => r.sheet = regSheet
    /\ \A n \in NameInputs, e \in EmailInputs, pw \in PasswordInputs :
          LET r == _handleRegister(regSheet, nextUuid, n, e, pw) IN
          r.success =>
              /\ Len(r.sheet) = Len(regSheet) + 1
              /\ r.sheet[Len(r.sheet)].status = "pending"
              /\ r.sheet[Len(r.sheet)].activeSessionToken = NoToken

\* a login with the right password was just refused for a self-registered, pending account
C9_Witness ==
    /\ op.name = "login"
    /\ ~op.success
    /\ op.code = "ACCOUNT_PENDING"
    /\ \E i \in RowsOfEmail(op.email) :
          /\ regSheet[i].studentId[1] = "STU_"
          /\ regSheet[i].status = "pending"
          /\ regSheet[i].activeSessionToken = NoToken

----------------------------------------------------------------------------
(* Properties of the offline queue *)

\* C5: when API.syncResult cannot deliver its payload (fetch throws or the HTTP
\* status is not OK), the persisted queue afterwards is the queue before with one
\* entry appended that holds the payload with retries = 0; when the payload was
\* delivered, the persisted queue is what it was.
C5_OfflineQueue ==
    [][op'.name = "syncResult" =>
         IF op'.outcome = "ok"
         THEN syncQueue' = syncQueue
         ELSE /\ syncQueue'.present
              /\ Len(syncQueue'.items) = Len(_getQueue(syncQueue)) + 1
              /\ \A i \in 1..Len(_getQueue(syncQueue)) :
                     syncQueue'.items[i] = _getQueue(syncQueue)[i]
              /\ LET e == syncQueue'.items[Len(syncQueue'.items)] IN
                     /\ e.retries = 0
                     /\ [f \in DOMAIN e \ {"retries"} |-> e[f]] = op'.payload]_vars

\* an undelivered result joined a queue that already held an item that had failed a retry
C5_Witness ==
    /\ op.name = "syncResult"
    /\ op.outcome = "network_error"
    /\ Len(syncQueue.items) = 2
    /\ syncQueue.items[1].retries = 1
    /\ syncQueue.items[2] = Queued(op.payload, 0)

\* the items of queue carrying the timestamp ts
WithStamp(items, ts) == {i \in 1..Len(items) : items[i].timestamp = ts}

\* what a finished run must have done with item i of the queue it read
RunOutcome(i) ==
    LET item == op.queue[i]
        after == WithStamp(syncQueue.items, item.timestamp)
    IN
    IF op.outcomes[i] = "ok" THEN after = {}
    ELSE IF item.retries + 1 = 3 THEN after = {}
    ELSE /\ Cardinality(after) = 1
         /\ \A j \in after : syncQueue.items[j] = [item EXCEPT !.retries = @ + 1]

\* C6: after a retryQueue run, an item that was delivered is no longer queued, an
\* item whose delivery failed is queued with retries one higher, unless that was
\* its third failed retry, in which case it is no longer queued; every item of the
\* persisted queue has retries < 3, and retryQueue has sent no payload more than
\* 3 times.
C6_RetryThenGiveUp ==
    /\ \A i \in 1..Len(syncQueue.items) : syncQueue.items[i].retries < 3
    /\ \A ts \in DOMAIN resent : resent[ts] <= 3
    /\ (op.name = "retryQueue" /\ op.done) => \A i \in 1..Len(op.queue) : RunOutcome(i)

\* a run ended in which one item was dropped on its third failed retry and
\* another was kept with a higher counter
C6_Witness ==
    /\ op.name = "retryQueue"
    /\ op.done
    /\ Len(op.queue) = 2
    /\ \E i \in 1..2 : op.queue[i].retries = MAX_RETRIES - 1 /\ op.outcomes[i] # "ok"
                       /\ resent[op.queue[i].timestamp] = MAX_RETRIES
    /\ Len(syncQueue.items) = 1
    /\ syncQueue.items[1].retries = 1

----------------------------------------------------------------------------
(* Properties of the session guard *)

\* C4: when checkAuth has asked the server and the answer is success:false, the
\* call removes the stored session, the progress store, the student id, the sync
\* queue and the dashboard cache, returns null and sends the browser to
\* login.html?reason=session_revoked; from then on, until createSession runs
\* again, isAuthenticated() is false.
C4_ClientRevocation ==
    [][/\ (op'.name = "checkAuth" /\ ~op'.success) =>
              /\ KeysOf(LocalData)' = {}
              /\ op'.returned = "null"
              /\ href' = "login.html?reason=session_revoked"
       /\ revoked' => ~isAuthenticated(session', now')]_vars

\* C7: when logout() has completed, none of the five keys exists and
\* isAuthenticated() is false, however the server-side logout request ended.
C7_LogoutClearsAll ==
    op.name = "logoutDone" =>
        /\ session = << >>
        /\ ~progress.present
        /\ lsStudentId = << >>
        /\ ~syncQueue.present
        /\ ~dashCache.present
        /\ ~isAuthenticated(session, now)

\* logout() completed on a browser that held all five keys, with the server unreachable
C7_Witness ==
    /\ op.name = "logoutDone"
    /\ op.server = "network_error"
    /\ op.cleared = {"session", "progress", "studentId", "queue", "cache"}
    /\ KeysOf(LocalData) = {}

\* C8: isAuthenticated() is true exactly when a session is stored that has a
\* studentId, an activeSessionToken and a loginAt and the current time is not
\* later than its expiresAt; createSession stores expiresAt = loginAt + 24 hours;
\* no session is reported authenticated more than 24 hours after its login.
C8_SessionValidity ==
    /\ isAuthenticated(session, now) <=>
           /\ session # << >>
           /\ session[1].studentId # ""
           /\ session[1].activeSessionToken # NoToken
           /\ session[1].loginAt # 0
           /\ now <= session[1].expiresAt
    /\ op.name = "createSession" =>
           /\ session[1].loginAt = now
           /\ session[1].expiresAt = session[1].loginAt + 24 * 60 * 60 * 1000
    /\ (op.name = "open" /\ op.authenticated) =>
           /\ session # << >>
           /\ now - session[1].loginAt <= 24 * 60 * 60 * 1000
    /\ (op.name = "open" /\ ~op.authenticated) => ~isAuthenticated(session, now)

\* a page load found the session valid at the last instant of its 24 hours
C8_Witness ==
    /\ op.name = "open"
    /\ op.authenticated
    /\ now = session[1].loginAt + SESSION_MAX_AGE
    /\ session[1].verified

----------------------------------------------------------------------------
(* Properties of the backend session token *)

\* C15: a logout request whose token is not the token stored for the student leaves
\* the REGISTRATION sheet as it is, so the session of the device that holds the
\* stored token stays valid.
C15_LogoutOwnSessionOnly ==
    [][(op'.name = "logout" /\ ~op'.own) => regSheet' = regSheet]_vars

\* the row of student id in sheet, as a sequence of at most one row
RowOf(sheet, id) ==
    IF FindRow(sheet, "studentId", id) = 0 THEN << >>
    ELSE << sheet[FindRow(sheet, "studentId", id)] >>

\* C16: a successful suspend or reject leaves the student with the new status and
\* an empty stored token; from then on, until the student logs in again
\* successfully, checkSession fails for the student with every token, and an
\* approve does not change that.
C16_SuspendForcesLogout ==
    /\ \A id \in IdInputs, a \in {"suspend", "reject"} :
           LET r == _handleAdminAction(regSheet, id, a) IN
           r.success =>
               /\ RowOf(r.sheet, id) # << >>
               /\ RowOf(r.sheet, id)[1].status = (IF a = "suspend" THEN "suspended" ELSE "rejected")
               /\ RowOf(r.sheet, id)[1].activeSessionToken = NoToken
    /\ \A id \in locked, t \in TokenInputs :
           /\ ~_handleCheckSession(regSheet, id, t).success
           /\ ~_handleCheckSession(_handleAdminAction(regSheet, id, "approve").sheet, id, t).success

\* a student who had logged in was suspended or rejected and then approved again
C16_Witness ==
    /\ op.name = "adminAction"
    /\ op.action = "approve"
    /\ op.success
    /\ FirstStudent \in locked
    /\ FirstStudent \in DOMAIN issued
    /\ RowOf(regSheet, FirstStudent) # << >>
    /\ RowOf(regSheet, FirstStudent)[1].status = "approved"

----------------------------------------------------------------------------
(* Properties of the RESULTS sheet *)

\* C14: a saveResult request whose studentId, subject, level, set and timestamp are
\* those of a row the sheet already holds appends no row, whatever else the sheet
\* holds.
C14_SaveResultIdempotent ==
    [][(op'.name = "saveResult" /\ op'.resent) => results' = results]_vars

----------------------------------------------------------------------------
(* Properties of the quiz *)

\* the questions of the loaded set that have no answer
Missing(e) == {q \in 1..Len(e.questions) : q \notin DOMAIN e.answers}

\* C11: _submitQuiz saves or syncs a result only when every question of the loaded
\* set has an answer; called while a question has none, it leaves submitted false
\* and answers, the progress store and the payloads handed to the backend as they
\* were.
C11_SubmitNeedsAllAnswers ==
    [][op'.name = "submitQuiz" =>
         /\ (progress' # progress \/ inflight' # inflight \/ syncs' # syncs) =>
                Missing(engine) = {}
         /\ Missing(engine) # {} =>
                /\ ~engine'.submitted
                /\ engine'.answers = engine.answers
                /\ progress' = progress
                /\ inflight' = inflight
                /\ syncs' = syncs
                /\ syncQueue' = syncQueue]_vars

\* submit was pressed with one of two questions answered, after an earlier attempt
\* at the set had been recorded
C11_Witness ==
    /\ op.name = "submitQuiz"
    /\ ~op.recorded
    /\ Len(engine.questions) = 2
    /\ Cardinality(Missing(engine)) = 1
    /\ ~engine.submitted
    /\ HasEntry(progress, engine.key)

----------------------------------------------------------------------------
(* Properties of the cache-first sync *)

\* C12: called while the dashboard cache marker is present and valid and no sync
\* is in flight, syncFromBackend returns true, starts no run (so no request goes
\* to the backend) and leaves the local progress store as it was.
C12_CacheFirst ==
    [][(op'.name = "syncFromBackend" /\ dashCache.present /\ dashCache.valid
            /\ syncRun.pc = "idle") =>
         /\ op'.returned = "true"
         /\ op'.requests = 0
         /\ syncRun'.pc = "idle"
         /\ progress' = progress
         /\ dashCache' = dashCache]_vars

\* syncFromBackend answered from the marker that an earlier run of this document
\* wrote after merging what the backend sent
C12_Witness ==
    /\ op.name = "syncFromBackend"
    /\ op.returned = "true"
    /\ dashCache.present /\ dashCache.valid
    /\ syncRun.pc = "idle"
    /\ mergedSince

\* C13: a sync whose two fetches both failed or timed out returns false and leaves
\* no valid cache marker behind.
C13_FailedFetchReturnsFalse ==
    [][(op'.name = "syncDone" /\ ~op'.obtained) =>
         /\ ~op'.returned
         /\ ~(dashCache'.present /\ dashCache'.valid)]_vars

====
